---- MODULE Spec2Model ----
(***************************************************************************)
(* A model of the note store of customnotes: the local SQLite table        *)
(* (local_operations.rs), the S3 bucket (s3_operations.rs) and the ChaCha20 *)
(* Poly1305 envelope both use.                                              *)
(*                                                                          *)
(* Cryptography and randomness are modelled symbolically: a ciphertext is   *)
(* the pair of the plaintext and the nonce it was sealed under, opening it  *)
(* under any other nonce fails authentication, and ring's SystemRandom and  *)
(* Uuid::new_v4 hand out values that were never handed out before (the      *)
(* 2^-96 chance of a repeated nonce is not modelled).                       *)
(*                                                                          *)
(* notes.db and the bucket outlive the process, so a session starts from    *)
(* what earlier sessions left: Init replays one of a few earlier histories  *)
(* through the operations below, starting from empty stores.               *)
(***************************************************************************)
EXTENDS Integers, Sequences, FiniteSets, TLC

VARIABLES
    rows,      \* the notes table: id -> row
    bucket,    \* the S3 bucket: object key -> [body, meta]
    rng,       \* how many nonces SystemRandom has handed out
    uuidgen,   \* how many uuids Uuid::new_v4 has handed out
    clock,     \* chrono::Utc::now().timestamp()
    sealLog,   \* the nonce of every seal_in_place_append_tag call, in order
    pc,        \* each caller's position: idle, inside an operation, or
               \* holding what its operation returned
    budget,    \* writes left to this session
    poisoned,  \* CONNECTION's mutex is poisoned: a caller panicked while
               \* it held the guard
    index      \* the documents of the RAM index of search_in_notes

vars ==
    <<rows, bucket, rng, uuidgen, clock, sealLog, pc, budget, poisoned, index>>

----------------------------------------------------------------------------
(* Bounds of the model *)

\* writes in one session: seal calls, rows deleted, and calls that update or
\* delete an object
MaxWrites == 1
\* the largest value of the clock; earlier sessions ran at 1, this one starts at 2
MaxClock == 3
\* keys one ListObjectsV2 request returns; S3 returns at most 1000, scaled
\* down so that a bucket of three objects needs a second page
ListMaxKeys == 2

(* Constants of the program *)

TitleMax == 100
ContentMax == 1000000
NonceLen == 12

----------------------------------------------------------------------------
(* Option<T>, Result<T, E> and strings *)

None == << >>
Some(x) == << x >>
IsSome(o) == o # << >>
Unwrap(o) == o[1]

Ok(v) == [tag |-> "Ok", val |-> v]
Err(e) == [tag |-> "Err", val |-> e]
Panic(e) == [tag |-> "Panic", val |-> e]
Unit == "()"

\* A text is known by a name and its length in bytes (String::len).
Text(s, n) == [s |-> s, len |-> n]
StrLen(t) == t.len
EmptyString == Text("", 0)

\* base64::STANDARD: encode wraps, decode unwraps what encode made and
\* rejects every other string except the empty one, which decodes to no bytes.
B64Encode(x) == [b64 |-> x]
NoBytes == [bytes |-> -1, len |-> 0]
B64Decode(str) ==
    IF DOMAIN str = {"b64"} THEN Ok(str.b64)
    ELSE IF str = EmptyString THEN Ok(NoBytes)
    ELSE Err("DecodeError")

\* i64::to_string and str::parse::<i64>
I64ToString(n) == [dec |-> n]
ParseI64(str) == IF DOMAIN str = {"dec"} THEN Ok(str.dec) ELSE Err("ParseIntError")

\* Result::unwrap_or, Option::unwrap_or
ResultUnwrapOr(r, d) == IF r.tag = "Ok" THEN r.val ELSE d
OptionUnwrapOr(o, d) == IF IsSome(o) THEN Unwrap(o) ELSE d

\* DateTime::to_rfc3339
ToRfc3339(t) == [rfc3339 |-> t]

\* Uuid::new_v4().to_string(): the k-th uuid handed out
UuidString(k) == [uuid |-> k]

\* HashMap::get
MapGet(map, k) == IF k \in DOMAIN map THEN Some(map[k]) ELSE None

MaxOf(S) == IF S = {} THEN 0 ELSE CHOOSE m \in S : \A x \in S : x <= m
Insert(f, k, v) == [x \in DOMAIN f \cup {k} |-> IF x = k THEN v ELSE f[x]]
Remove(f, k) == [x \in DOMAIN f \ {k} |-> f[x]]

----------------------------------------------------------------------------
(* The state the operations work on, as one record *)

Store ==
    [rows |-> rows, bucket |-> bucket, rng |-> rng, uuidgen |-> uuidgen,
     clock |-> clock, sealLog |-> sealLog, poisoned |-> poisoned,
     index |-> index]

----------------------------------------------------------------------------
(* The cipher envelope: CHACHA20_POLY1305 under the key [0; 32] *)

\* a variant that fills every nonce with the same twelve bytes
FillNonceFixed(s) == [bytes |-> 0, len |-> NonceLen]

\* rng.fill(&mut nonce): twelve bytes SystemRandom never returned before
FillNonce(s) == [bytes |-> s.rng, len |-> NonceLen]

\* seal_in_place_append_tag(nonce, Aad::empty(), in_out): the ciphertext
\* and its tag
Seal(plaintext, nonce) == [pt |-> plaintext, n |-> nonce]

\* open_in_place(nonce, Aad::empty(), in_out): the tag authenticates only
\* under the nonce the text was sealed with
Open(ciphertext, nonce) ==
    IF ciphertext.n = nonce THEN Ok(ciphertext.pt) ELSE Err("Unspecified")

\* The lines every write path repeats: draw a nonce and seal the content
\* under it. The store it returns has the draw and the seal recorded.
SealContent(s, content) ==
    LET nonce == FillNonce(s)
    IN [s |-> [s EXCEPT !.rng = @ + 1, !.sealLog = Append(@, nonce)],
        nonce_str |-> B64Encode(nonce),
        in_out |-> Seal(content, nonce)]

\* The lines fetch_bucket_note runs on the stored nonce string: decode it
\* and check its length. Ok(nonce bytes) or Err(why).
DecodeNonce(nonce_str) ==
    LET nonce_bytes == B64Decode(nonce_str)
    IN IF nonce_bytes.tag = "Err" THEN Err("Failed to decode nonce")
       ELSE IF nonce_bytes.val.len # NonceLen THEN Err("Nonce has wrong length")
       ELSE Ok(nonce_bytes.val)

----------------------------------------------------------------------------
(* models.rs: Note *)

Note(id, uuid, title, content, nonce, created_at, updated_at, timestamp) ==
    [id |-> id, uuid |-> uuid, title |-> title, content |-> content,
     nonce |-> nonce, created_at |-> created_at, updated_at |-> updated_at,
     timestamp |-> timestamp]

----------------------------------------------------------------------------
(* Callers *)

Procs == {"p1", "p2"}

Idle == [step |-> "idle"]

\* the operation has returned res to its caller; changes is what the
\* statement of a local write reported (Connection::execute), 0 elsewhere
Done(op, arg, res, changes) ==
    [step |-> "done", op |-> op, arg |-> arg, res |-> res, changes |-> changes]

----------------------------------------------------------------------------
(* local_operations.rs *)

\* a variant that checks the title only
validate_params_title_only(note) ==
    IF StrLen(note.title) > TitleMax THEN Err("Title too long") ELSE Ok(Unit)

\* a variant whose limits are exclusive
validate_params_exclusive(note) ==
    IF StrLen(note.title) >= TitleMax THEN Err("Title too long")
    ELSE IF StrLen(note.content) >= ContentMax THEN Err("Content too long")
    ELSE Ok(Unit)

validate_params(note) ==
    IF StrLen(note.title) > TitleMax THEN Err("Title too long")
    ELSE IF StrLen(note.content) > ContentMax THEN Err("Content too long")
    ELSE Ok(Unit)

\* CONNECTION.lock().unwrap() on a poisoned mutex
LockPoisoned == Panic("CONNECTION.lock: PoisonError")

\* a panic while the guard is held poisons the mutex
Poisoned(s, res) == [s EXCEPT !.poisoned = @ \/ res.tag = "Panic"]

\* INTEGER PRIMARY KEY: the rowid of an inserted row is one more than the
\* largest rowid in the table
NewRowId(s) == MaxOf(DOMAIN s.rows) + 1

\* INSERT INTO notes (uuid, title, content, nonce, created_at, timestamp)
InsertedRow(uuid, note, encrypted_content, nonce_str, now, timestamp) ==
    [uuid |-> Some(uuid), title |-> note.title, content |-> encrypted_content,
     nonce |-> Some(nonce_str), created_at |-> now, updated_at |-> None,
     timestamp |-> timestamp]

\* the Note create_local_note returns
CreatedNote(uuid, note, encrypted_content, nonce_str, now, timestamp) ==
    Note(None, Some(uuid), note.title, encrypted_content, Some(nonce_str),
         now, None, timestamp)

\* create_local_note(note): the store it leaves and what it returns
CreateLocalNote(s, note) ==
    IF validate_params(note).tag = "Err"
    THEN [s |-> s, q |-> Done("create_local_note", note, validate_params(note), 0)]
    ELSE IF s.poisoned
    THEN [s |-> SealContent(s, note.content).s,
          q |-> Done("create_local_note", note, LockPoisoned, 0)]
    ELSE LET sealed == SealContent(s, note.content)
             encrypted_content == B64Encode(sealed.in_out)
             now == s.clock
             uuid == UuidString(s.uuidgen)
             timestamp == Some(ToRfc3339(s.clock))
             row == InsertedRow(uuid, note, encrypted_content, sealed.nonce_str,
                                now, timestamp)
         IN [s |-> [sealed.s EXCEPT !.rows = Insert(@, NewRowId(s), row),
                                    !.uuidgen = @ + 1],
             q |-> Done("create_local_note", note,
                        Ok(CreatedNote(uuid, note, encrypted_content,
                                       sealed.nonce_str, now, timestamp)), 1)]

\* the closure get_local_note maps the selected row with: decode content
\* and nonce, open, build the Note
RowToNote(s, id) ==
    LET row == s.rows[id]
        content_bytes == B64Decode(row.content)
        nonce_bytes == B64Decode(OptionUnwrapOr(row.nonce, Text("NULL", 4)))
    IN IF content_bytes.tag = "Err" THEN Err("QueryReturnedNoRows")
       ELSE IF nonce_bytes.tag = "Err" THEN Err("QueryReturnedNoRows")
       ELSE IF nonce_bytes.val.len # NonceLen THEN Err("InvalidQuery")
       ELSE LET decrypted_content == Open(content_bytes.val, nonce_bytes.val)
            IN IF decrypted_content.tag = "Err"
               THEN Panic("open_in_place: unwrap on Err")
               ELSE Ok(Note(Some(id), row.uuid, row.title,
                            decrypted_content.val, row.nonce,
                            row.created_at, row.updated_at, row.timestamp))

\* variant: a read that matches no row yields an empty note
GetLocalNoteOrDefault(s, id) ==
    IF id \notin DOMAIN s.rows
    THEN Ok(Note(None, None, EmptyString, EmptyString, None, 0, None, None))
    ELSE RowToNote(s, id)

\* get_local_note(id): what it returns; SELECT ... WHERE id = ?1, then
\* note_iter.next().transpose()?.ok_or_else(|| anyhow!("Note not found"))
GetLocalNote(s, id) ==
    IF s.poisoned THEN LockPoisoned
    ELSE IF id \notin DOMAIN s.rows THEN Err("Note not found")
    ELSE RowToNote(s, id)

\* a variant whose UPDATE leaves the nonce column out
UpdatedRowKeepingNonce(row, note, encrypted_content, nonce_str, now, timestamp) ==
    [row EXCEPT !.title = note.title, !.content = encrypted_content,
                !.updated_at = Some(now), !.timestamp = timestamp]

\* UPDATE notes SET title, content, nonce, updated_at, timestamp
\* a variant whose UPDATE sets the uuid column from the note as well
UpdatedRowWithUuid(row, note, encrypted_content, nonce_str, now, timestamp) ==
    [row EXCEPT !.uuid = note.uuid, !.title = note.title,
                !.content = encrypted_content, !.nonce = Some(nonce_str),
                !.updated_at = Some(now), !.timestamp = timestamp]

UpdatedRow(row, note, encrypted_content, nonce_str, now, timestamp) ==
    [row EXCEPT !.title = note.title, !.content = encrypted_content,
                !.nonce = Some(nonce_str), !.updated_at = Some(now),
                !.timestamp = timestamp]

\* a variant whose UPDATE has no WHERE clause
MatchedEveryId(s, id) == DOMAIN s.rows

\* ... WHERE id = ?6: the ids the statement matches (NULL matches none)
MatchedIds(s, id) == { i \in DOMAIN s.rows : Some(i) = id }

\* update_local_note(note)
UpdateLocalNote(s, note) ==
    IF validate_params(note).tag = "Err"
    THEN [s |-> s, q |-> Done("update_local_note", note, validate_params(note), 0)]
    ELSE IF s.poisoned
    THEN [s |-> SealContent(s, note.content).s,
          q |-> Done("update_local_note", note, LockPoisoned, 0)]
    ELSE LET sealed == SealContent(s, note.content)
             encrypted_content == B64Encode(sealed.in_out)
             now == s.clock
             timestamp == Some(ToRfc3339(s.clock))
             hit == MatchedIds(s, note.id)
         IN [s |-> [sealed.s EXCEPT !.rows =
                       [i \in DOMAIN @ |->
                           IF i \in hit
                           THEN UpdatedRow(@[i], note, encrypted_content,
                                           sealed.nonce_str, now, timestamp)
                           ELSE @[i]]],
             q |-> Done("update_local_note", note, Ok(Unit), Cardinality(hit))]

\* a variant that reports an error when the statement deleted no row
DeleteLocalNoteStrict(s, id) ==
    IF id \in DOMAIN s.rows
    THEN [s |-> [s EXCEPT !.rows = Remove(@, id)],
          q |-> Done("delete_local_note", id, Ok(Unit), 1)]
    ELSE [s |-> s, q |-> Done("delete_local_note", id, Err("Note not found"), 0)]

\* delete_local_note(id): DELETE FROM notes WHERE id = ?1
\* a variant that deletes the row's uploaded copies with it
DeleteLocalNoteAndCopies(s, id) ==
    [s |-> [s EXCEPT !.rows = Remove(@, id),
                     !.bucket =
                         [k \in { j \in DOMAIN s.bucket :
                                    id \notin DOMAIN s.rows
                                    \/ MapGet(s.bucket[j].meta, "uuid")
                                          # s.rows[id].uuid }
                             |-> s.bucket[k]]],
     q |-> Done("delete_local_note", id, Ok(Unit),
                IF id \in DOMAIN s.rows THEN 1 ELSE 0)]

DeleteLocalNote(s, id) ==
    IF s.poisoned
    THEN [s |-> s, q |-> Done("delete_local_note", id, LockPoisoned, 0)]
    ELSE [s |-> [s EXCEPT !.rows = Remove(@, id)],
          q |-> Done("delete_local_note", id, Ok(Unit),
                     IF id \in DOMAIN s.rows THEN 1 ELSE 0)]

\* the rows of get_local_notes, in rowid order, each decoded and opened as
\* get_local_note does; the first row that fails ends the query
RECURSIVE CollectNotes(_, _, _)
CollectNotes(s, ids, notes) ==
    IF ids = {} THEN Ok(notes)
    ELSE LET id == CHOOSE i \in ids : \A j \in ids : i <= j
             note == GetLocalNote(s, id)
         IN IF note.tag # "Ok" THEN note
            ELSE CollectNotes(s, ids \ {id}, Append(notes, note.val))

\* get_local_notes(): SELECT ... FROM notes
GetLocalNotes(s) ==
    IF s.poisoned THEN LockPoisoned ELSE CollectNotes(s, DOMAIN s.rows, << >>)

\* delete_all_local_notes(): DELETE FROM notes
\* a variant whose DELETE spares the row of the largest id
DeleteAllButLatest(s) ==
    [s |-> [s EXCEPT !.rows =
               [i \in DOMAIN @ \cap {MaxOf(DOMAIN @)} |-> @[i]]],
     q |-> Done("delete_all_local_notes", Unit, Ok(Unit),
                Cardinality(DOMAIN s.rows))]

DeleteAllLocalNotes(s) ==
    IF s.poisoned
    THEN [s |-> s, q |-> Done("delete_all_local_notes", Unit, LockPoisoned, 0)]
    ELSE [s |-> [s EXCEPT !.rows = << >>],
          q |-> Done("delete_all_local_notes", Unit, Ok(Unit),
                     Cardinality(DOMAIN s.rows))]

\* a local operation, from taking the connection to its return
LocalCall(s, op, arg) ==
    CASE op = "create_local_note" -> CreateLocalNote(s, arg)
      [] op = "get_local_note" ->
            [s |-> Poisoned(s, GetLocalNote(s, arg)),
             q |-> Done(op, arg, GetLocalNote(s, arg), 0)]
      [] op = "update_local_note" -> UpdateLocalNote(s, arg)
      [] op = "delete_local_note" -> DeleteLocalNote(s, arg)
      [] op = "get_local_notes" ->
            [s |-> Poisoned(s, GetLocalNotes(s)),
             q |-> Done(op, arg, GetLocalNotes(s), 0)]
      [] op = "delete_all_local_notes" -> DeleteAllLocalNotes(s)

----------------------------------------------------------------------------
(* s3_operations.rs: one bucket; an object is [body, meta], meta the     *)
(* user metadata map. Every S3 request is a step of its own: other callers *)
(* may act between two requests of one operation.                          *)

\* format!("{}.txt", note.title)
Key(title) == [name |-> title, ext |-> ".txt"]

\* S3 lists keys in ascending order
KeyRank(key) ==
    CASE key.name.s = "a" -> 1
      [] key.name.s = "b" -> 2
      [] key.name.s = "c" -> 3
      [] OTHER -> 4

RECURSIVE SortedKeys(_)
SortedKeys(S) ==
    IF S = {} THEN << >>
    ELSE LET k == CHOOSE k \in S : \A x \in S : KeyRank(k) <= KeyRank(x)
         IN << k >> \o SortedKeys(S \ {k})

\* list_objects_v2().bucket(bucket).send(): one request, no continuation
\* token: the first ListMaxKeys keys
ListObjectsV2(s) ==
    LET all == SortedKeys(DOMAIN s.bucket)
    IN SubSeq(all, 1, IF Len(all) < ListMaxKeys THEN Len(all) ELSE ListMaxKeys)

\* a variant that trusts the uuid the argument carries
UploadUuidOfArgument(note, note_result) ==
    OptionUnwrapOr(note.uuid, Unwrap(note_result.val.uuid))

\* Ok(note) => note.uuid.unwrap(): the uuid of the local row, whatever the
\* argument carries
UploadUuid(note, note_result) == Unwrap(note_result.val.uuid)

\* upload_note_to_bucket up to its put_object request: validate, seal,
\* read the uuid from the local row
UploadBegin(s, note) ==
    LET op == "upload_note_to_bucket"
    IN IF validate_params(note).tag = "Err"
       THEN [s |-> s, q |-> Done(op, note, validate_params(note), 0)]
       ELSE LET sealed == SealContent(s, note.content)
                filename == Key(note.title)
                note_result == GetLocalNote(sealed.s, Unwrap(note.id))
                timestamp == ToRfc3339(s.clock)
                created_at == I64ToString(note.created_at)
                updated_at == I64ToString(OptionUnwrapOr(note.updated_at, 0))
            IN IF ~IsSome(note.id)
               THEN [s |-> sealed.s,
                     q |-> Done(op, note, Panic("note.id: unwrap on None"), 0)]
               ELSE IF note_result.tag = "Err"
               THEN [s |-> sealed.s,
                     q |-> Done(op, note, Err("Failed to get local note"), 0)]
               ELSE IF note_result.tag = "Panic"
               THEN [s |-> Poisoned(sealed.s, note_result),
                     q |-> Done(op, note, note_result, 0)]
               ELSE IF ~IsSome(note_result.val.uuid)
               THEN [s |-> sealed.s,
                     q |-> Done(op, note, Panic("note.uuid: unwrap on None"), 0)]
               ELSE [s |-> sealed.s,
                     q |-> [step |-> "put", op |-> op, arg |-> note,
                            key |-> filename,
                            obj |-> [body |-> sealed.in_out,
                                     meta |-> [uuid |-> UploadUuid(note, note_result),
                                               timestamp |-> timestamp,
                                               created_at |-> created_at,
                                               updated_at |-> updated_at,
                                               nonce |-> sealed.nonce_str]],
                            res |-> Ok("Object uploaded successfully")]]

\* variant: a store that keeps the object with the later timestamp
\* metadata, whichever request arrives last
PutObjectNewestWins(s, q) ==
    IF /\ q.key \in DOMAIN s.bucket
       /\ IsSome(MapGet(s.bucket[q.key].meta, "timestamp"))
       /\ s.bucket[q.key].meta.timestamp.rfc3339 > q.obj.meta.timestamp.rfc3339
    THEN [s |-> s, q |-> Done(q.op, q.arg, q.res, 0)]
    ELSE [s |-> [s EXCEPT !.bucket = Insert(@, q.key, q.obj)],
          q |-> Done(q.op, q.arg, q.res, 0)]

\* variant: a put to an existing key replaces the body and keeps the
\* metadata the object had
PutObjectKeepingMetadata(s, q) ==
    [s |-> [s EXCEPT !.bucket =
                Insert(@, q.key,
                       IF q.key \in DOMAIN s.bucket
                       THEN [body |-> q.obj.body, meta |-> s.bucket[q.key].meta]
                       ELSE q.obj)],
     q |-> Done(q.op, q.arg, q.res, 0)]

\* put_object(key, metadata, body): the object is written whole, whether
\* or not the key exists
PutObject(s, q) ==
    [s |-> [s EXCEPT !.bucket = Insert(@, q.key, q.obj)],
     q |-> Done(q.op, q.arg, q.res, 0)]

\* the list_objects_v2 request fetch, update and delete by uuid start with
ScanBegin(s, op, arg) ==
    LET keys == ListObjectsV2(s)
    IN IF keys = << >>
       THEN [s |-> s, q |-> Done(op, arg, Err("Note not found"), 0)]
       ELSE [s |-> s, q |-> [step |-> "head", op |-> op, arg |-> arg, keys |-> keys]]

FetchBegin(s, uuid) == ScanBegin(s, "fetch_bucket_note", uuid)

\* note.uuid.unwrap() comes first
UpdateBegin(s, note) ==
    IF ~IsSome(note.uuid)
    THEN [s |-> s, q |-> Done("update_bucket_note", note,
                              Panic("note.uuid: unwrap on None"), 0)]
    ELSE ScanBegin(s, "update_bucket_note", note)

DeleteBegin(s, uuid) == ScanBegin(s, "delete_bucket_note", uuid)

\* the uuid the scan of q looks for
WantedUuid(q) == IF q.op = "update_bucket_note" THEN Unwrap(q.arg.uuid) ELSE q.arg

\* metadata.get("uuid").map(|s| s.as_str()) == Some(&uuid)
UuidMatches(metadata, uuid) == MapGet(metadata, "uuid") = Some(uuid)

\* what each operation does with the object whose metadata matches
OnMatch(s, q, key, metadata) ==
    CASE q.op = "fetch_bucket_note" ->
            [s |-> s, q |-> [step |-> "get", op |-> q.op, arg |-> q.arg,
                             key |-> key, meta |-> metadata]]
      [] q.op = "update_bucket_note" ->
            LET sealed == SealContent(s, q.arg.content)
                timestamp == ToRfc3339(s.clock)
            IN [s |-> sealed.s,
                q |-> [step |-> "put", op |-> q.op, arg |-> q.arg, key |-> key,
                       obj |-> [body |-> sealed.in_out,
                                meta |-> [uuid |-> WantedUuid(q),
                                          timestamp |-> timestamp,
                                          nonce |-> sealed.nonce_str]],
                       res |-> Ok(Unit)]]
      [] q.op = "delete_bucket_note" ->
            [s |-> s, q |-> [step |-> "delete", op |-> q.op, arg |-> q.arg,
                             key |-> key]]

\* one turn of the loop over the listed objects: head_object on the next
\* key, compare its uuid metadata, go on to the next key or give up
HeadObject(s, q) ==
    LET key == Head(q.keys)
    IN IF key \notin DOMAIN s.bucket
       THEN [s |-> s, q |-> Done(q.op, q.arg, Err("head_object: NotFound"), 0)]
       ELSE IF UuidMatches(s.bucket[key].meta, WantedUuid(q))
       THEN OnMatch(s, q, key, s.bucket[key].meta)
       ELSE IF Tail(q.keys) = << >>
       THEN [s |-> s, q |-> Done(q.op, q.arg, Err("Note not found"), 0)]
       ELSE [s |-> s, q |-> [q EXCEPT !.keys = Tail(@)]]

\* fetch_bucket_note: get_object and reading its body
GetObject(s, q) ==
    IF q.key \notin DOMAIN s.bucket
    THEN [s |-> s, q |-> Done(q.op, q.arg, Err("get_object: NoSuchKey"), 0)]
    ELSE [s |-> s, q |-> [step |-> "open", op |-> q.op, arg |-> q.arg,
                          key |-> q.key, meta |-> q.meta,
                          body |-> s.bucket[q.key].body]]

\* the Note fetch_bucket_note builds
FetchedNote(uuid, key, body_str, nonce_str, metadata, now) ==
    Note(Some(1), Some(uuid), key, body_str, Some(nonce_str),
         ResultUnwrapOr(ParseI64(OptionUnwrapOr(MapGet(metadata, "created_at"),
                                                 EmptyString)), 0),
         Some(now), MapGet(metadata, "timestamp"))

\* fetch_bucket_note: the nonce of the head_object metadata opens the body
OpenFetched(s, q) ==
    LET nonce_str == OptionUnwrapOr(MapGet(q.meta, "nonce"), EmptyString)
        nonce == DecodeNonce(nonce_str)
        decrypted_content == Open(q.body, nonce.val)
    IN IF nonce.tag = "Err"
       THEN [s |-> s, q |-> Done(q.op, q.arg, nonce, 0)]
       ELSE IF decrypted_content.tag = "Err"
       THEN [s |-> s, q |-> Done(q.op, q.arg,
                                 Panic("open_in_place: unwrap on Err"), 0)]
       ELSE [s |-> s,
             q |-> Done(q.op, q.arg,
                        Ok(FetchedNote(q.arg, q.key, decrypted_content.val,
                                       nonce_str, q.meta, s.clock)), 0)]

\* delete_object(key): succeeds whether or not the key exists
DeleteObject(s, q) ==
    [s |-> [s EXCEPT !.bucket = Remove(@, q.key)],
     q |-> Done(q.op, q.arg, Ok(Unit), 0)]

\* the next request of an operation that is under way
CloudStep(s, q) ==
    CASE q.step = "head" -> HeadObject(s, q)
      [] q.step = "put" -> PutObject(s, q)
      [] q.step = "get" -> GetObject(s, q)
      [] q.step = "open" -> OpenFetched(s, q)
      [] q.step = "delete" -> DeleteObject(s, q)

\* an operation run to its end with no other caller acting
RECURSIVE Finish(_)
Finish(r) == IF r.q.step = "done" THEN r.s ELSE Finish(CloudStep(r.s, r.q))

\* what an operation returns when it runs to its end with no other caller
\* acting
RECURSIVE Returns(_)
Returns(r) == IF r.q.step = "done" THEN r.q.res ELSE Returns(CloudStep(r.s, r.q))

\* fetch_bucket_notes, for one key: get_object, the nonce of its metadata,
\* open. The tuple's last_modified is left out: nothing modelled reads it.
FetchedTuple(s, key) ==
    LET metadata == s.bucket[key].meta
        nonce == DecodeNonce(OptionUnwrapOr(MapGet(metadata, "nonce"), EmptyString))
        decrypted_content == Open(s.bucket[key].body, nonce.val)
    IN IF nonce.tag = "Err" THEN nonce
       ELSE IF decrypted_content.tag = "Err" THEN Err("Failed to decrypt content")
       ELSE Ok([key |-> key, metadata |-> metadata,
                content |-> decrypted_content.val])

\* variant: an object that cannot be read is left out of the listing
RECURSIVE FetchEachSkipping(_, _, _)
FetchEachSkipping(s, keys, notes) ==
    IF keys = << >> THEN Ok(notes)
    ELSE LET t == FetchedTuple(s, Head(keys))
         IN IF t.tag = "Err" THEN FetchEachSkipping(s, Tail(keys), notes)
            ELSE FetchEachSkipping(s, Tail(keys), Append(notes, t.val))

\* the loop of fetch_bucket_notes over keys, the first error ending it
RECURSIVE FetchEach(_, _, _)
FetchEach(s, keys, notes) ==
    IF keys = << >> THEN Ok(notes)
    ELSE LET t == FetchedTuple(s, Head(keys))
         IN IF t.tag = "Err" THEN t
            ELSE FetchEach(s, Tail(keys), Append(notes, t.val))

\* a variant that reads one page of the listing only
FetchBucketNotesFirstPage(s) == FetchEach(s, ListObjectsV2(s), << >>)

\* fetch_bucket_notes(bucket): into_paginator() walks every page of the
\* listing
FetchBucketNotes(s) == FetchEach(s, SortedKeys(DOMAIN s.bucket), << >>)

\* delete_bucket_notes up to its loop: fetch_bucket_notes(bucket_name).await?
DeleteBucketNotesBegin(s) ==
    LET op == "delete_bucket_notes"
        notes == FetchBucketNotes(s)
    IN IF notes.tag = "Err" THEN [s |-> s, q |-> Done(op, Unit, notes, 0)]
       ELSE [s |-> s, q |-> [step |-> "each", op |-> op, arg |-> Unit,
                             notes |-> notes.val]]

\* one turn of the loop of delete_bucket_notes: skip a note without uuid
\* metadata, else call delete_bucket_note and return its error if it has
\* one. The call is taken as one step: no other caller acts during it.
DeleteEach(s, q) ==
    IF q.notes = << >> THEN [s |-> s, q |-> Done(q.op, q.arg, Ok(Unit), 0)]
    ELSE LET uuid == MapGet(Head(q.notes).metadata, "uuid")
             r == DeleteBegin(s, Unwrap(uuid))
         IN IF ~IsSome(uuid) THEN [s |-> s, q |-> [q EXCEPT !.notes = Tail(@)]]
            ELSE IF Returns(r).tag = "Err"
            THEN [s |-> Finish(r), q |-> Done(q.op, q.arg, Returns(r), 0)]
            ELSE [s |-> Finish(r), q |-> [q EXCEPT !.notes = Tail(@)]]

----------------------------------------------------------------------------
(* Search: main.rs, search_in_notes *)

\* TopDocs::with_limit(10)
SearchLimit == 10

\* the texts of the notes that are searched
ApplePie == Text("apple pie recipe", 16)
BananaBread == Text("banana bread recipe", 19)
TitleApple == Text("apple", 5)

\* the terms the index's tokenizer makes of a text: its words
Terms(text) ==
    CASE text = EmptyString -> {}
      [] text = ApplePie -> {"apple", "pie", "recipe"}
      [] text = BananaBread -> {"banana", "bread", "recipe"}
      [] OTHER -> {text.s}

\* the (id, uuid, title, content, created_at, updated_at, timestamp) the
\* loop indexes, of a note get_local_notes returned
LocalEntry(note) ==
    [id |-> Unwrap(note.id), uuid |-> OptionUnwrapOr(note.uuid, EmptyString),
     title |-> note.title, content |-> note.content,
     created_at |-> note.created_at, updated_at |-> note.updated_at,
     timestamp |-> note.timestamp]

\* the same of a (key, last_modified, metadata, content) that
\* fetch_bucket_notes returned; last_modified is a date, which does not
\* parse as an i64
BucketEntry(t) ==
    [id |-> 0,
     uuid |-> OptionUnwrapOr(MapGet(t.metadata, "uuid"), EmptyString),
     title |-> t.key, content |-> t.content, created_at |-> 0,
     updated_at |->
         Some(ResultUnwrapOr(ParseI64([date_time |-> "last_modified"]), 0)),
     timestamp |-> Some(OptionUnwrapOr(MapGet(t.metadata, "timestamp"),
                                       EmptyString))]

\* a variant that reads the bucket whenever one is named
SnapshotOfNamedBucket(s, local, bucket_name) ==
    IF local /\ ~IsSome(bucket_name)
    THEN LET notes == GetLocalNotes(s)
         IN IF notes.tag # "Ok" THEN notes
            ELSE Ok([k \in DOMAIN notes.val |-> LocalEntry(notes.val[k])])
    ELSE IF ~IsSome(bucket_name)
    THEN Err("Bucket name is required when local is false")
    ELSE LET bucket_notes == FetchBucketNotes(s)
         IN IF bucket_notes.tag # "Ok" THEN bucket_notes
            ELSE Ok([k \in DOMAIN bucket_notes.val |->
                      BucketEntry(bucket_notes.val[k])])

\* let notes = if local { .. } else { .. }: the notes of the local table,
\* or those of the bucket, which has to be named
Snapshot(s, local, bucket_name) ==
    IF local
    THEN LET notes == GetLocalNotes(s)
         IN IF notes.tag # "Ok" THEN notes
            ELSE Ok([k \in DOMAIN notes.val |-> LocalEntry(notes.val[k])])
    ELSE IF ~IsSome(bucket_name)
    THEN Err("Bucket name is required when local is false")
    ELSE LET bucket_notes == FetchBucketNotes(s)
         IN IF bucket_notes.tag # "Ok" THEN bucket_notes
            ELSE Ok([k \in DOMAIN bucket_notes.val |->
                      BucketEntry(bucket_notes.val[k])])

\* a variant that searches the title as well
HitsInTitleToo(docs, query_str) ==
    { k \in DOMAIN docs :
        query_str \in Terms(docs[k].content) \cup Terms(docs[k].title) }

\* QueryParser::for_index(&index, vec![content_field]): the documents
\* whose content holds the term
Hits(docs, query_str) ==
    { k \in DOMAIN docs : query_str \in Terms(docs[k].content) }

\* a variant without a limit
TopDocsUnlimited(hits) == {hits}

\* searcher.search(&query, &TopDocs::with_limit(10)): the hits if they are
\* at most 10, else 10 of them; which 10 is left to the scores
TopDocs(hits) ==
    IF Cardinality(hits) <= SearchLimit THEN {hits}
    ELSE { top \in SUBSET hits : Cardinality(top) = SearchLimit }

\* the Note built of a retrieved document
RetrievedNote(doc) ==
    [id |-> Some(doc.id), uuid |-> Some(doc.uuid), title |-> doc.title,
     content |-> doc.content, created_at |-> doc.created_at,
     updated_at |-> doc.updated_at, timestamp |-> doc.timestamp]

RECURSIVE Retrieved(_, _)
Retrieved(docs, top) ==
    IF top = {} THEN << >>
    ELSE LET k == CHOOSE i \in top : \A j \in top : i <= j
         IN <<RetrievedNote(docs[k])>> \o Retrieved(docs, top \ {k})

\* Index::create_in_ram(schema.clone()): a new index, without documents
CreateInRam == << >>

\* a variant in which the index outlives the call
IndexKept(ix) == ix

\* the index is a local of search_in_notes: dropped when the call returns
IndexDropped(ix) == << >>

\* search_in_notes(query_str, local, bucket_name), for a query of one term;
\* top is the choice searcher.search made
SearchInNotes(s, query_str, local, bucket_name, top) ==
    LET op == "search_in_notes"
        arg == [query_str |-> query_str, local |-> local,
                bucket_name |-> bucket_name]
        notes == Snapshot(s, local, bucket_name)
        docs == CreateInRam \o notes.val
    IN IF notes.tag # "Ok"
       THEN [s |-> [Poisoned(s, notes) EXCEPT !.index = IndexDropped(CreateInRam)],
             q |-> Done(op, arg, notes, 0)]
       ELSE [s |-> [s EXCEPT !.index = IndexDropped(docs)],
             q |-> Done(op, arg, Ok(Retrieved(docs, top)), 0)]

\* the choices searcher.search has
Tops(s, query_str, local, bucket_name) ==
    LET notes == Snapshot(s, local, bucket_name)
    IN IF notes.tag # "Ok" THEN {{}}
       ELSE TopDocs(Hits(CreateInRam \o notes.val, query_str))

----------------------------------------------------------------------------
(* Earlier sessions *)

EmptyStore ==
    [rows |-> << >>, bucket |-> << >>, rng |-> 0, uuidgen |-> 0, clock |-> 1,
     sealLog |-> << >>, poisoned |-> FALSE, index |-> << >>]

\* an object some other program put into the bucket: no uuid metadata, a
\* nonce of its own and a body sealed under it
ForeignKey == [name |-> Text("z", 1), ext |-> ".txt"]
ForeignNonce == [bytes |-> 0 - 2, len |-> NonceLen]
ForeignObject ==
    [body |-> Seal(Text("z", 1), ForeignNonce),
     meta |-> [nonce |-> B64Encode(ForeignNonce)]]

TitleA == Text("a", TitleMax)
TitleB == Text("b", 1)
TitleC == Text("c", 50)
TitleLong == Text("long", TitleMax + 1)
ContentX == Text("x", ContentMax)
ContentY == Text("y", 1)
ContentHuge == Text("huge", ContentMax + 1)

\* the note the caller passes for local row id: the row's own times, the
\* title and content the caller chose
NoteOfRow(s, id, title, content) ==
    Note(Some(id), None, title, content, None,
         IF id \in DOMAIN s.rows THEN s.rows[id].created_at ELSE 0,
         IF id \in DOMAIN s.rows THEN s.rows[id].updated_at ELSE None,
         None)

NewNote(title, content) == Note(None, None, title, content, None, 0, None, None)

\* the note the caller passes to update the object that carries uuid
NoteOfUuid(uuid, content) == Note(None, Some(uuid), TitleA, content, None, 0, None, None)

Earlier(s, e) ==
    CASE e.op = "create" -> CreateLocalNote(s, NewNote(e.title, e.content)).s
      [] e.op = "update" ->
            UpdateLocalNote(s, NoteOfRow(s, e.id, e.title, e.content)).s
      [] e.op = "delete" -> DeleteLocalNote(s, e.id).s
      [] e.op = "upload" ->
            Finish(UploadBegin(s, NoteOfRow(s, e.id, e.title, e.content)))
      [] e.op = "foreign_put" ->
            [s EXCEPT !.bucket = Insert(@, ForeignKey, ForeignObject)]
      [] e.op = "cloud_update" ->
            Finish(UpdateBegin(s, NoteOfUuid(UuidString(e.uuid), e.content)))
      [] e.op = "tamper_row" ->
            [s EXCEPT !.rows[e.id].nonce = Some(e.nonce)]
      [] e.op = "tamper_object" ->
            [s EXCEPT !.bucket[Key(e.title)].meta =
                IF IsSome(e.metadata) THEN [@ EXCEPT !.nonce = Unwrap(e.metadata)]
                ELSE [k \in DOMAIN @ \ {"nonce"} |-> @[k]]]

RECURSIVE Replay(_)
Replay(h) ==
    IF h = << >> THEN EmptyStore
    ELSE Earlier(Replay(SubSeq(h, 1, Len(h) - 1)), h[Len(h)])

Created(t, c) == [op |-> "create", title |-> t, content |-> c]
Updated(i, t, c) == [op |-> "update", id |-> i, title |-> t, content |-> c]
Deleted(i) == [op |-> "delete", id |-> i]
Uploaded(i, t, c) == [op |-> "upload", id |-> i, title |-> t, content |-> c]
CloudUpdated(k, c) == [op |-> "cloud_update", uuid |-> k, content |-> c]
ForeignPut == [op |-> "foreign_put"]

\* what earlier sessions may have done: nothing; a note; a note and its
\* upload; two notes, uploaded; three notes, uploaded; a note updated and
\* then uploaded; a note uploaded and its object updated; two notes, the
\* second uploaded and then deleted from the table; a note uploaded under
\* two titles; a note uploaded into a bucket another program writes to
Histories ==
    { << >>,
      << Created(TitleA, ContentX) >>,
      << Created(TitleA, ContentX), Uploaded(1, TitleA, ContentX) >>,
      << Created(TitleA, ContentX), Created(TitleB, ContentY),
         Uploaded(1, TitleA, ContentX), Uploaded(2, TitleB, ContentY) >>,
      << Created(TitleA, ContentX), Created(TitleB, ContentY),
         Created(TitleC, ContentY), Uploaded(1, TitleA, ContentX),
         Uploaded(2, TitleB, ContentY), Uploaded(3, TitleC, ContentY) >>,
      << Created(TitleA, ContentX), Updated(1, TitleB, ContentY),
         Uploaded(1, TitleB, ContentY) >>,
      << Created(TitleA, ContentX), Uploaded(1, TitleA, ContentX),
         CloudUpdated(0, ContentY) >>,
      << Created(TitleA, ContentX), Created(TitleB, ContentY),
         Uploaded(2, TitleB, ContentY), Deleted(2) >>,
      << Created(TitleA, ContentX), Uploaded(1, TitleA, ContentX),
         Uploaded(1, TitleB, ContentX) >>,
      << Created(TitleA, ContentX), Uploaded(1, TitleA, ContentX),
         ForeignPut >> }

\* notes.db and the bucket are files and objects other programs can write:
\* a nonce column or a nonce metadata value replaced by twelve other bytes,
\* by eight bytes, or by text that is not base64; a nonce metadata removed
OtherNonce == B64Encode([bytes |-> 0 - 3, len |-> NonceLen])
ShortNonce == B64Encode([bytes |-> 0 - 3, len |-> NonceLen - 4])
MalformedNonce == Text("%%%", 3)
TamperedRow(i, n) == [op |-> "tamper_row", id |-> i, nonce |-> n]
TamperedObject(t, n) == [op |-> "tamper_object", title |-> t, metadata |-> n]

\* two notes, both uploaded
TwoUploaded ==
    << Created(TitleA, ContentX), Created(TitleB, ContentY),
       Uploaded(1, TitleA, ContentX), Uploaded(2, TitleB, ContentY) >>

\* what a session may find when the stores were damaged: nothing damaged;
\* one row, or one object, with each kind of bad nonce; two rows, or two
\* objects, with different kinds; three objects, the last one damaged
DamagedHistories ==
    { TwoUploaded }
      \cup { Append(TwoUploaded, TamperedRow(i, n)) :
                i \in {1, 2}, n \in {OtherNonce, ShortNonce, MalformedNonce} }
      \cup { Append(TwoUploaded, TamperedObject(t, n)) :
                t \in {TitleA, TitleB},
                n \in {Some(OtherNonce), Some(ShortNonce), Some(MalformedNonce), None} }
      \cup { TwoUploaded \o << TamperedRow(1, ShortNonce), TamperedRow(2, OtherNonce) >>,
             TwoUploaded \o << TamperedObject(TitleA, Some(MalformedNonce)),
                               TamperedObject(TitleB, None) >>,
             << Created(TitleA, ContentX), Created(TitleB, ContentY),
                Created(TitleC, ContentY), Uploaded(1, TitleA, ContentX),
                Uploaded(2, TitleB, ContentY), Uploaded(3, TitleC, ContentY),
                TamperedObject(TitleC, Some(ShortNonce)) >> }

\* two recipes, the second under a title that names the first's fruit,
\* both uploaded
Recipes ==
    << Created(TitleA, ApplePie), Created(TitleApple, BananaBread),
       Uploaded(1, TitleA, ApplePie), Uploaded(2, TitleApple, BananaBread) >>

\* one recipe more than a search returns
ManyRecipes == [k \in 1 .. SearchLimit + 1 |-> Created(TitleB, BananaBread)]

\* what a session that searches may find: nothing; the two recipes; the two
\* recipes with a damaged row of either kind, with a damaged object, with
\* both; many recipes
SearchHistories ==
    { << >>, Recipes, ManyRecipes,
      Append(Recipes, TamperedRow(1, ShortNonce)),
      Append(Recipes, TamperedRow(2, OtherNonce)),
      Append(Recipes, TamperedObject(TitleA, None)),
      Recipes \o << TamperedRow(1, ShortNonce), TamperedObject(TitleA, None) >> }

----------------------------------------------------------------------------
(* Inputs *)

\* title and content a caller may pass: two valid pairs, each differing from
\* a stored note in the title or in the content, and a pair for each way of
\* being too long
ValidTexts == { <<TitleA, ContentY>>, <<TitleB, ContentX>> }
LongTexts ==
    { <<TitleLong, ContentY>>, <<TitleB, ContentHuge>>, <<TitleLong, ContentHuge>> }
Texts == ValidTexts \cup LongTexts

\* ids a caller may name: every id up to one past the largest in the table
ArgIds == 1 .. (MaxOf(DOMAIN rows) + 1)

\* uuids a caller may name: every uuid handed out so far and one that was not
ArgUuids == { UuidString(k) : k \in 0 .. uuidgen }

CreateArgs == { NewNote(x[1], x[2]) : x \in Texts }

\* update_local_note reads id, title and content
UpdateArgs ==
    { NoteOfRow(Store, i, x[1], x[2]) : i \in ArgIds, x \in ValidTexts }
        \cup { NoteOfRow(Store, 1, x[1], x[2]) : x \in LongTexts }
        \cup { NewNote(TitleA, ContentY) }

\* upload_note_to_bucket reads id, title, content, created_at and updated_at;
\* one caller passes a note that carries a uuid no row has
UploadArgs ==
    UpdateArgs \cup
        { [NoteOfRow(Store, 1, TitleB, ContentX)
              EXCEPT !.uuid = Some(UuidString(uuidgen))] }

\* update_bucket_note reads uuid and content
CloudUpdateArgs ==
    { NoteOfUuid(u, c) : u \in ArgUuids, c \in {ContentY, ContentHuge} }
        \cup { NewNote(TitleA, ContentY) }

\* what a caller may search for, and the bucket it may name
Queries == {"apple", "recipe", "mango", "y"}
BucketNames == {None, Some("notes-bucket")}

----------------------------------------------------------------------------
(* The operations as steps of a caller *)

\* the seal calls r made
Sealed(r) == r.s.rng - rng

\* caller p's operation moves on to r = [s, q]: the store it leaves and
\* the caller's new position; cost is what it takes from the session's
\* budget of writes
Moves(p, r, cost) ==
    /\ cost <= budget
    /\ rows' = r.s.rows
    /\ bucket' = r.s.bucket
    /\ rng' = r.s.rng
    /\ uuidgen' = r.s.uuidgen
    /\ clock' = r.s.clock
    /\ sealLog' = r.s.sealLog
    /\ poisoned' = r.s.poisoned
    /\ index' = r.s.index
    /\ pc' = [pc EXCEPT ![p] = r.q]
    /\ budget' = budget - cost

create_local_note(p, note) ==
    /\ pc[p] = Idle
    /\ Moves(p, CreateLocalNote(Store, note), Sealed(CreateLocalNote(Store, note)))

get_local_note(p, id) ==
    /\ pc[p] = Idle
    /\ Moves(p, LocalCall(Store, "get_local_note", id), 0)

update_local_note(p, note) ==
    /\ pc[p] = Idle
    /\ Moves(p, UpdateLocalNote(Store, note), Sealed(UpdateLocalNote(Store, note)))

delete_local_note(p, id) ==
    /\ pc[p] = Idle
    /\ Moves(p, DeleteLocalNote(Store, id), DeleteLocalNote(Store, id).q.changes)

get_local_notes(p) ==
    pc[p] = Idle /\ Moves(p, LocalCall(Store, "get_local_notes", Unit), 0)

delete_all_local_notes(p) ==
    /\ pc[p] = Idle
    /\ Moves(p, DeleteAllLocalNotes(Store),
             IF DOMAIN rows = {} THEN 0 ELSE 1)

upload_note_to_bucket(p, note) ==
    /\ pc[p] = Idle
    /\ Moves(p, UploadBegin(Store, note), Sealed(UploadBegin(Store, note)))

fetch_bucket_note(p, uuid) ==
    pc[p] = Idle /\ Moves(p, FetchBegin(Store, uuid), 0)

update_bucket_note(p, note) ==
    pc[p] = Idle /\ Moves(p, UpdateBegin(Store, note), 1)

delete_bucket_note(p, uuid) ==
    pc[p] = Idle /\ Moves(p, DeleteBegin(Store, uuid), 1)

head_object(p) ==
    pc[p].step = "head" /\ Moves(p, HeadObject(Store, pc[p]), 0)

put_object(p) ==
    pc[p].step = "put" /\ Moves(p, PutObject(Store, pc[p]), 0)

get_object(p) ==
    pc[p].step = "get" /\ Moves(p, GetObject(Store, pc[p]), 0)

open_in_place(p) ==
    pc[p].step = "open" /\ Moves(p, OpenFetched(Store, pc[p]), 0)

delete_object(p) ==
    pc[p].step = "delete" /\ Moves(p, DeleteObject(Store, pc[p]), 0)

fetch_bucket_notes(p) ==
    /\ pc[p] = Idle
    /\ Moves(p, [s |-> Store,
                 q |-> Done("fetch_bucket_notes", Unit, FetchBucketNotes(Store), 0)], 0)

search_in_notes(p, query_str, local, bucket_name) ==
    /\ pc[p] = Idle
    /\ \E top \in Tops(Store, query_str, local, bucket_name) :
          Moves(p, SearchInNotes(Store, query_str, local, bucket_name, top), 0)

delete_bucket_notes(p) ==
    pc[p] = Idle /\ Moves(p, DeleteBucketNotesBegin(Store), 1)

delete_each(p) ==
    pc[p].step = "each" /\ Moves(p, DeleteEach(Store, pc[p]), 0)

\* The local operations again, with the connection mutex as steps of its
\* own: the call up to CONNECTION.lock(), the lock, and the statement with
\* the return that drops the guard.

\* a variant of the lock that never waits
TryLockNoWait(p) == TRUE

\* CONNECTION.lock(): granted when no caller holds the guard
TryLock(p) == \A q \in Procs : pc[q].step # "locked"

\* the operations that change the table
LocalWrites ==
    { "create_local_note", "update_local_note", "delete_local_note",
      "delete_all_local_notes" }

\* a local operation is called: create and update validate first, then the
\* caller goes for the connection
route_command(p, op, arg) ==
    /\ pc[p] = Idle
    /\ IF /\ op \in {"create_local_note", "update_local_note"}
          /\ validate_params(arg).tag = "Err"
       THEN Moves(p, LocalCall(Store, op, arg), 0)
       ELSE Moves(p, [s |-> Store, q |-> [step |-> "lock", op |-> op, arg |-> arg]],
                  IF op \in LocalWrites THEN 1 ELSE 0)

lock(p) ==
    /\ pc[p].step = "lock"
    /\ TryLock(p)
    /\ Moves(p, [s |-> Store, q |-> [pc[p] EXCEPT !.step = "locked"]], 0)

\* the statement runs and the operation returns, dropping the guard
execute(p) ==
    /\ pc[p].step = "locked"
    /\ Moves(p, LocalCall(Store, pc[p].op, pc[p].arg), 0)

\* the caller takes the result
Return(p) ==
    /\ pc[p].step = "done"
    /\ pc' = [pc EXCEPT ![p] = Idle]
    /\ UNCHANGED <<rows, bucket, rng, uuidgen, clock, sealLog, budget, poisoned,
                   index>>

Tick ==
    /\ clock < MaxClock
    /\ clock' = clock + 1
    /\ UNCHANGED <<rows, bucket, rng, uuidgen, sealLog, pc, budget, poisoned,
                   index>>

----------------------------------------------------------------------------

Init ==
    \E h \in Histories :
        /\ rows = Replay(h).rows
        /\ bucket = Replay(h).bucket
        /\ rng = Replay(h).rng
        /\ uuidgen = Replay(h).uuidgen
        /\ sealLog = Replay(h).sealLog
        /\ clock = 2
        /\ pc = [p \in Procs |-> Idle]
        /\ budget = MaxWrites
        /\ poisoned = FALSE
        /\ index = << >>

Local(p) ==
    \/ \E note \in CreateArgs : create_local_note(p, note)
    \/ \E id \in ArgIds : get_local_note(p, id)
    \/ \E note \in UpdateArgs : update_local_note(p, note)
    \/ \E id \in ArgIds : delete_local_note(p, id)
    \/ get_local_notes(p)
    \/ delete_all_local_notes(p)

Cloud(p) ==
    \/ \E note \in UploadArgs : upload_note_to_bucket(p, note)
    \/ \E uuid \in ArgUuids : fetch_bucket_note(p, uuid)
    \/ \E note \in CloudUpdateArgs : update_bucket_note(p, note)
    \/ \E uuid \in ArgUuids : delete_bucket_note(p, uuid)
    \/ head_object(p)
    \/ put_object(p)
    \/ get_object(p)
    \/ open_in_place(p)
    \/ delete_object(p)
    \/ fetch_bucket_notes(p)

\* delete_bucket_notes and its loop
Clear(p) == delete_bucket_notes(p) \/ delete_each(p)

\* one caller, one operation at a time
Next ==
    \/ Local("p1")
    \/ Cloud("p1")
    \/ Clear("p1")
    \/ Return("p1")
    \/ Tick

Spec == Init /\ [][Next]_vars

\* two callers whose requests to the bucket interleave (the commands are
\* async and share no lock around S3)
NextConc ==
    \E p \in Procs : Cloud(p) \/ Return(p)

SpecConc == Init /\ [][NextConc]_vars

\* two callers of the local operations, which share CONNECTION
Locking(p) ==
    \/ \E note \in CreateArgs : route_command(p, "create_local_note", note)
    \/ \E id \in ArgIds : route_command(p, "get_local_note", id)
    \/ \E note \in UpdateArgs : route_command(p, "update_local_note", note)
    \/ \E id \in ArgIds : route_command(p, "delete_local_note", id)
    \/ route_command(p, "get_local_notes", Unit)
    \/ route_command(p, "delete_all_local_notes", Unit)
    \/ lock(p)
    \/ execute(p)

NextLock ==
    \E p \in Procs : Locking(p) \/ Return(p)

SpecLock == Init /\ [][NextLock]_vars

\* two callers that only update notes of the bucket by uuid, in a session
\* long enough for each of them to write
InitRace ==
    \E h \in Histories :
        /\ rows = Replay(h).rows
        /\ bucket = Replay(h).bucket
        /\ rng = Replay(h).rng
        /\ uuidgen = Replay(h).uuidgen
        /\ sealLog = Replay(h).sealLog
        /\ clock = 2
        /\ pc = [p \in Procs |-> Idle]
        /\ budget = MaxWrites + 1
        /\ poisoned = FALSE
        /\ index = << >>

Race(p) ==
    \/ \E note \in CloudUpdateArgs : update_bucket_note(p, note)
    \/ head_object(p)
    \/ put_object(p)

NextRace ==
    \/ \E p \in Procs : Race(p) \/ Return(p)
    \/ Tick

SpecRace == InitRace /\ [][NextRace]_vars

\* one caller reading stores that may have been damaged
InitDamaged ==
    \E h \in DamagedHistories :
        /\ rows = Replay(h).rows
        /\ bucket = Replay(h).bucket
        /\ rng = Replay(h).rng
        /\ uuidgen = Replay(h).uuidgen
        /\ sealLog = Replay(h).sealLog
        /\ clock = 2
        /\ pc = [p \in Procs |-> Idle]
        /\ budget = MaxWrites
        /\ poisoned = FALSE
        /\ index = << >>

Reads(p) ==
    \/ \E id \in ArgIds : get_local_note(p, id)
    \/ get_local_notes(p)
    \/ \E uuid \in ArgUuids : fetch_bucket_note(p, uuid)
    \/ head_object(p)
    \/ get_object(p)
    \/ open_in_place(p)
    \/ fetch_bucket_notes(p)

NextDamaged == Reads("p1") \/ Return("p1")

SpecDamaged == InitDamaged /\ [][NextDamaged]_vars


\* a delete_bucket_note and an update_bucket_note whose requests interleave
Undo(p) ==
    \/ \E uuid \in ArgUuids : delete_bucket_note(p, uuid)
    \/ \E note \in CloudUpdateArgs : update_bucket_note(p, note)
    \/ head_object(p)
    \/ put_object(p)
    \/ delete_object(p)

NextUndo == \E p \in Procs : Undo(p) \/ Return(p)

SpecUndo == InitRace /\ [][NextUndo]_vars

\* a session that searches, before and after a write to either store
InitSearch ==
    \E h \in SearchHistories :
        /\ rows = Replay(h).rows
        /\ bucket = Replay(h).bucket
        /\ rng = Replay(h).rng
        /\ uuidgen = Replay(h).uuidgen
        /\ sealLog = Replay(h).sealLog
        /\ clock = 2
        /\ pc = [p \in Procs |-> Idle]
        /\ budget = MaxWrites
        /\ poisoned = FALSE
        /\ index = << >>

Writes(p) ==
    \/ \E note \in UpdateArgs : update_local_note(p, note)
    \/ \E id \in ArgIds : delete_local_note(p, id)
    \/ \E note \in CloudUpdateArgs : update_bucket_note(p, note)
    \/ \E uuid \in ArgUuids : delete_bucket_note(p, uuid)
    \/ head_object(p)
    \/ put_object(p)
    \/ delete_object(p)

NextSearch ==
    \/ \E query_str \in Queries, local \in BOOLEAN, bucket_name \in BucketNames :
          search_in_notes("p1", query_str, local, bucket_name)
    \/ Writes("p1")
    \/ Return("p1")

SpecSearch == InitSearch /\ [][NextSearch]_vars

----------------------------------------------------------------------------
(* What the claims read off a state *)

\* caller p holds what operation op returned
Returned(p, op) == pc[p].step = "done" /\ pc[p].op = op

\* caller p, idle before the step, has called one of ops
Calls(p, ops) == pc[p] = Idle /\ pc'[p].step # "idle" /\ pc'[p].op \in ops

\* the nonce a stored nonce string stands for
NonceOf(nonce_str) == B64Decode(nonce_str).val

\* the plaintext and the nonce sealed into a stored row
RowSealed(row) == B64Decode(row.content).val

\* the keys of the objects that carry uuid
Carriers(uuid) == { k \in DOMAIN bucket : UuidMatches(bucket[k].meta, uuid) }

TooLong(note) == StrLen(note.title) > 100 \/ StrLen(note.content) > 1000000

ValidationErrors == { Err("Title too long"), Err("Content too long") }

----------------------------------------------------------------------------
(* Local store *)

\* C1: whenever create_local_note has returned Ok, the note it returned
\* carries an id, and get_local_note of that id returns the title and the
\* plaintext content that were passed, a uuid, a created_at and no updated_at.
C1_CreateThenReadByReturnedId ==
    \A p \in Procs :
        (Returned(p, "create_local_note") /\ pc[p].res.tag = "Ok") =>
            /\ IsSome(pc[p].res.val.id)
            /\ LET got == GetLocalNote(Store, Unwrap(pc[p].res.val.id))
               IN /\ got.tag = "Ok"
                  /\ got.val.title = pc[p].arg.title
                  /\ got.val.content = pc[p].arg.content
                  /\ IsSome(got.val.uuid)
                  /\ got.val.created_at > 0
                  /\ got.val.updated_at = None

\* C2: a step in which update_local_note returns Ok for the id of an
\* existing row leaves that row with an updated_at, with a nonce other than
\* the one it had, and with the uuid and created_at it had.
C2_UpdateSetsUpdatedAtAndNonce ==
    [][\A p \in Procs : \A i \in DOMAIN rows :
          (/\ Calls(p, {"update_local_note"})
           /\ pc'[p].res.tag = "Ok"
           /\ pc'[p].arg.id = Some(i)) =>
              /\ i \in DOMAIN rows'
              /\ IsSome(rows'[i].updated_at)
              /\ IsSome(rows'[i].nonce)
              /\ rows'[i].nonce # rows[i].nonce
              /\ rows'[i].uuid = rows[i].uuid
              /\ rows'[i].created_at = rows[i].created_at]_vars

\* C2 happens: an update that changed a row has returned Ok, and the row was
\* created at an earlier time than it was updated
C2_Witness ==
    \E p \in Procs :
        /\ Returned(p, "update_local_note")
        /\ pc[p].res.tag = "Ok"
        /\ pc[p].changes = 1
        /\ Unwrap(pc[p].arg.id) \in DOMAIN rows
        /\ rows[Unwrap(pc[p].arg.id)].updated_at
              # Some(rows[Unwrap(pc[p].arg.id)].created_at)

----------------------------------------------------------------------------
(* Cipher envelope *)

\* C4: no nonce was used for two seal calls, whichever write made them.
C4_NoNonceSealsTwice ==
    \A i, j \in DOMAIN sealLog : i # j => sealLog[i] # sealLog[j]

\* C4 happens: a local create, an upload, an update of the object and a
\* local update have each sealed once
C4_Witness ==
    /\ Len(sealLog) = 4
    /\ \E p \in Procs :
          /\ Returned(p, "update_local_note")
          /\ pc[p].changes = 1
    /\ \E k \in DOMAIN bucket : "created_at" \notin DOMAIN bucket[k].meta

\* C5: every row and every object holds the nonce its ciphertext was sealed
\* under, and a fetch that is about to open a body holds the nonce that
\* body was sealed under.
C5_NonceReadWithItsCiphertext ==
    /\ \A i \in DOMAIN rows :
          RowSealed(rows[i]).n = NonceOf(Unwrap(rows[i].nonce))
    /\ \A k \in DOMAIN bucket :
          bucket[k].body.n = NonceOf(bucket[k].meta.nonce)
    /\ \A p \in Procs :
          pc[p].step = "open" => pc[p].body.n = NonceOf(pc[p].meta.nonce)

----------------------------------------------------------------------------
(* Validation *)

\* C6: a step in which create_local_note, update_local_note or
\* upload_note_to_bucket is called with a title or a content that is too
\* long returns a validation error at once and changes neither the table
\* nor the bucket.
C6_RejectedBeforeAnyWrite ==
    [][\A p \in Procs :
          (/\ Calls(p, {"create_local_note", "update_local_note",
                        "upload_note_to_bucket"})
           /\ TooLong(pc'[p].arg)) =>
              /\ pc'[p].step = "done"
              /\ pc'[p].res \in ValidationErrors
              /\ rows' = rows
              /\ bucket' = bucket]_vars

\* C6 happens: an upload of a note that has a row and a content too long
\* has returned
C6_Witness ==
    \E p \in Procs :
        /\ Returned(p, "upload_note_to_bucket")
        /\ pc[p].arg.id = Some(1)
        /\ 1 \in DOMAIN rows
        /\ StrLen(pc[p].arg.content) > 1000000
        /\ pc[p].res = Err("Content too long")

\* C7: an operation that validates its note returns "Title too long"
\* exactly when the title is longer than 100, and "Content too long" exactly
\* when the title is not and the content is longer than 1,000,000.
C7_ValidationBoundaries ==
    \A p \in Procs :
        (/\ pc[p].step = "done"
         /\ pc[p].op \in {"create_local_note", "update_local_note",
                          "upload_note_to_bucket"}) =>
            /\ pc[p].res = Err("Title too long")
                  <=> StrLen(pc[p].arg.title) >= 101
            /\ pc[p].res = Err("Content too long")
                  <=> (/\ StrLen(pc[p].arg.title) <= 100
                       /\ StrLen(pc[p].arg.content) >= 1000001)

\* C7 happens: a note that breaks both limits has been rejected for its title
C7_Witness ==
    \E p \in Procs :
        /\ Returned(p, "create_local_note")
        /\ StrLen(pc[p].arg.title) = 101
        /\ StrLen(pc[p].arg.content) = 1000001
        /\ pc[p].res = Err("Title too long")

\* C8: no row and no object holds a title longer than 100 or a plaintext
\* content longer than 1,000,000.
C8_StoredWithinLimits ==
    /\ \A i \in DOMAIN rows :
          /\ StrLen(rows[i].title) <= 100
          /\ StrLen(RowSealed(rows[i]).pt) <= 1000000
    /\ \A k \in DOMAIN bucket :
          /\ StrLen(k.name) <= 100
          /\ StrLen(bucket[k].body.pt) <= 1000000

----------------------------------------------------------------------------
(* Identity scan *)

\* C9: when fetch_bucket_note has returned, an Ok note was built from an
\* object that carries the uuid asked for and holds the plaintext sealed
\* into it, and the result is "Note not found" exactly when no object of
\* the bucket carries that uuid.
C9_FetchByUuid ==
    \A p \in Procs :
        Returned(p, "fetch_bucket_note") =>
            /\ pc[p].res.tag = "Ok" =>
                  \E k \in Carriers(pc[p].arg) :
                      /\ pc[p].res.val.title = k
                      /\ pc[p].res.val.content = bucket[k].body.pt
                      /\ pc[p].res.val.uuid = Some(pc[p].arg)
            /\ pc[p].res = Err("Note not found") <=> Carriers(pc[p].arg) = {}

\* C10: when fetch, update or delete by uuid has returned "Note not found",
\* no object of the bucket, on whatever page of the listing, carries the
\* uuid asked for.
C10_ScanCoversEveryObject ==
    \A p \in Procs :
        (/\ pc[p].step = "done"
         /\ pc[p].op \in {"fetch_bucket_note", "update_bucket_note",
                          "delete_bucket_note"}
         /\ pc[p].res = Err("Note not found")) =>
            Carriers(WantedUuid(pc[p])) = {}


----------------------------------------------------------------------------
(* Cloud store *)

\* the bucket but for the object under key
Others(b, key) == [k \in DOMAIN b \ {key} |-> b[k]]

\* C11: an upload returns Ok only for the id of a local row; the step that
\* completes it writes the object named "{title}.txt" and no other, with the
\* uuid of that row and the content passed; an upload for an id no row has
\* returns no Ok and leaves the bucket as it was.
C11_UploadNeedsLocalRow ==
    [][\A p \in Procs :
          /\ (/\ pc[p].step = "put"
              /\ pc[p].op = "upload_note_to_bucket"
              /\ pc'[p].step = "done") =>
                 LET note == pc'[p].arg
                     key == [name |-> note.title, ext |-> ".txt"]
                 IN /\ pc'[p].res.tag = "Ok"
                    /\ IsSome(note.id)
                    /\ Unwrap(note.id) \in DOMAIN rows
                    /\ key \in DOMAIN bucket'
                    /\ bucket'[key].meta.uuid = Unwrap(rows[Unwrap(note.id)].uuid)
                    /\ bucket'[key].body.pt = note.content
                    /\ Others(bucket', key) = Others(bucket, key)
          /\ (/\ Calls(p, {"upload_note_to_bucket"})
              /\ pc'[p].arg.id \notin { Some(i) : i \in DOMAIN rows }) =>
                 /\ pc'[p].step = "done"
                 /\ pc'[p].res.tag # "Ok"
                 /\ bucket' = bucket]_vars

\* C11 happens: an upload of a note that carried a uuid of its own has
\* returned Ok, and the object holds the uuid of the row instead
C11_Witness ==
    \E p \in Procs :
        /\ Returned(p, "upload_note_to_bucket")
        /\ pc[p].res.tag = "Ok"
        /\ IsSome(pc[p].arg.uuid)
        /\ Key(pc[p].arg.title) \in DOMAIN bucket
        /\ Some(bucket[Key(pc[p].arg.title)].meta.uuid) # pc[p].arg.uuid
        /\ Some(bucket[Key(pc[p].arg.title)].meta.uuid)
              = rows[Unwrap(pc[p].arg.id)].uuid


\* C12: when update_bucket_note has returned for a uuid that an object
\* carries, it returned Ok and a fetch of that uuid now returns the content
\* passed; when no object carries the uuid it returned "Note not found".
C12_UpdateByUuidOverwrites ==
    \A p \in Procs :
        (Returned(p, "update_bucket_note") /\ IsSome(pc[p].arg.uuid)) =>
            LET uuid == Unwrap(pc[p].arg.uuid)
                fetched == Returns(FetchBegin(Store, uuid))
            IN /\ Carriers(uuid) # {} =>
                     /\ pc[p].res = Ok(Unit)
                     /\ fetched.tag = "Ok"
                     /\ fetched.val.content = pc[p].arg.content
               /\ Carriers(uuid) = {} => pc[p].res = Err("Note not found")


\* C13: delete_bucket_note returns Ok or "Note not found"; when it has
\* returned "Note not found" no object carries the uuid, and when it has
\* returned Ok a second delete of the same uuid returns "Note not found".
C13_DeleteByUuid ==
    \A p \in Procs :
        Returned(p, "delete_bucket_note") =>
            /\ pc[p].res \in { Ok(Unit), Err("Note not found") }
            /\ pc[p].res = Err("Note not found") => Carriers(pc[p].arg) = {}
            /\ pc[p].res = Ok(Unit) =>
                  Returns(DeleteBegin(Store, pc[p].arg)) = Err("Note not found")


\* the keys of the objects that carry a uuid
Tagged(b) == { k \in DOMAIN b : IsSome(MapGet(b[k].meta, "uuid")) }

\* C14: no step of delete_bucket_notes touches an object that has no uuid
\* metadata, and when it returns Ok with no other caller writing, no object
\* that has uuid metadata is left.
C14_DeleteAllClearsTagged ==
    [][\A p \in Procs :
          (/\ pc'[p] # pc[p]
           /\ pc'[p].step # "idle"
           /\ pc'[p].op = "delete_bucket_notes") =>
              /\ \A k \in DOMAIN bucket \ Tagged(bucket) :
                    k \in DOMAIN bucket' /\ bucket'[k] = bucket[k]
              /\ (pc'[p].step = "done" /\ pc'[p].res.tag = "Ok") =>
                    Tagged(bucket') = {}]_vars

\* C14 happens: delete_bucket_notes has returned Ok in a bucket that held an
\* uploaded note and an object of another program; only the latter is left
C14_Witness ==
    \E p \in Procs :
        /\ Returned(p, "delete_bucket_notes")
        /\ pc[p].res = Ok(Unit)
        /\ Len(sealLog) >= 2
        /\ DOMAIN bucket = {ForeignKey}
        /\ bucket[ForeignKey] = ForeignObject


\* C15: when update_bucket_note has returned Ok for the uuid of a local row
\* (whose created_at every upload of it stored), a fetch of that uuid
\* returns that created_at.
C15_CloudCreatedAtImmutable ==
    \A p \in Procs :
        (Returned(p, "update_bucket_note") /\ pc[p].res = Ok(Unit)) =>
            LET uuid == Unwrap(pc[p].arg.uuid)
                fetched == Returns(FetchBegin(Store, uuid))
            IN /\ fetched.tag = "Ok"
               /\ \A i \in DOMAIN rows :
                     rows[i].uuid = Some(uuid) =>
                        fetched.val.created_at = rows[i].created_at


----------------------------------------------------------------------------
(* Concurrency *)

\* the callers that hold the guard of CONNECTION
Holders == { p \in Procs : pc[p].step = "locked" }

LocalOps ==
    { "create_local_note", "get_local_note", "update_local_note",
      "delete_local_note", "get_local_notes", "delete_all_local_notes" }

\* C16: at most one caller holds the connection at any time, and the table
\* is read or changed only in a step of the one caller that holds it: a
\* local operation returns a result other than a validation error, and the
\* table changes, only in such a step.
C16_ConnectionMutex ==
    [][/\ Cardinality(Holders') <= 1
       /\ \A p \in Procs :
             (/\ pc'[p] # pc[p]
              /\ pc'[p].step = "done"
              /\ pc'[p].op \in LocalOps
              /\ pc'[p].res \notin ValidationErrors) => Holders = {p}
       /\ rows' # rows =>
             \E p \in Procs : Holders = {p} /\ pc'[p].step = "done"]_vars

\* C16 happens: one caller holds the connection for a write while the other
\* waits for it to list the notes
C16_Witness ==
    /\ pc["p1"].step = "locked"
    /\ pc["p1"].op = "update_local_note"
    /\ pc["p2"].step = "lock"
    /\ pc["p2"].op = "get_local_notes"

\* the content an object opens to under the nonce of its own metadata
Opened(obj) ==
    Open(obj.body,
         DecodeNonce(OptionUnwrapOr(MapGet(obj.meta, "nonce"), EmptyString)).val)

\* caller p is at the put_object request of an update by uuid and sends it
PutsUpdate(p) ==
    /\ pc[p].step = "put"
    /\ pc[p].op = "update_bucket_note"
    /\ pc'[p] # pc[p]

\* both callers hold Ok from update_bucket_note for the same uuid
BothUpdated ==
    /\ \A p \in Procs : Returned(p, "update_bucket_note") /\ pc[p].res = Ok(Unit)
    /\ pc["p1"].arg.uuid = pc["p2"].arg.uuid

\* an object with the uuid both callers updated opens to the content one of
\* them sent
HoldsOneOfTheTwo ==
    \E k \in Carriers(Unwrap(pc["p1"].arg.uuid)) :
        /\ Opened(bucket[k]).tag = "Ok"
        /\ Opened(bucket[k]).val \in {pc["p1"].arg.content, pc["p2"].arg.content}

\* C17: when two update_bucket_note calls for the same uuid interleave, each
\* put_object request replaces the whole object under the key its scan
\* found (body, nonce and timestamp of that one call) and touches no other
\* key, nothing else changes the bucket, so the object ends with what the
\* later request wrote; once both calls have returned Ok the set of keys is
\* what it was and the object opens to the content of one of the two calls.
C17_LastPutWins ==
    [][/\ \A p \in Procs :
            PutsUpdate(p) =>
                /\ pc[p].key \in DOMAIN bucket
                /\ DOMAIN bucket' = DOMAIN bucket
                /\ bucket'[pc[p].key] = pc[p].obj
                /\ Others(bucket', pc[p].key) = Others(bucket, pc[p].key)
       /\ bucket' # bucket => \E p \in Procs : PutsUpdate(p)
       /\ (BothUpdated => HoldsOneOfTheTwo)']_vars

\* C17 happens: both calls have found the same object and sealed different
\* contents for it before either has written
C17_Witness ==
    /\ \A p \in Procs : pc[p].step = "put" /\ pc[p].op = "update_bucket_note"
    /\ pc["p1"].key = pc["p2"].key
    /\ pc["p1"].arg.content # pc["p2"].arg.content
    /\ pc["p1"].obj.meta.timestamp # pc["p2"].obj.meta.timestamp

\* caller p sends the put_object of an upload to a key that holds another
\* note, whose uuid is on no other object
Collides(p) ==
    /\ pc[p].step = "put"
    /\ pc[p].op = "upload_note_to_bucket"
    /\ pc'[p] # pc[p]
    /\ pc[p].key \in DOMAIN bucket
    /\ IsSome(MapGet(bucket[pc[p].key].meta, "uuid"))
    /\ bucket[pc[p].key].meta.uuid # pc[p].obj.meta.uuid
    /\ Carriers(bucket[pc[p].key].meta.uuid) = {pc[p].key}

\* C18: when a note is uploaded under the title of an object that holds a
\* different note, the bucket keeps the same keys, the object "{title}.txt"
\* then carries the uuid of the uploaded row and opens to the uploaded
\* content, and fetch_bucket_note for the uuid it carried before returns
\* "Note not found".
C18_SameTitleCollides ==
    [][\A p \in Procs :
          Collides(p) =>
              /\ pc[p].key = Key(pc[p].arg.title)
              /\ DOMAIN bucket' = DOMAIN bucket
              /\ Others(bucket', pc[p].key) = Others(bucket, pc[p].key)
              /\ Some(bucket'[pc[p].key].meta.uuid)
                    = GetLocalNote(Store, Unwrap(pc[p].arg.id)).val.uuid
              /\ Opened(bucket'[pc[p].key]) = Ok(pc[p].arg.content)
              /\ Returns(FetchBegin(Store', bucket[pc[p].key].meta.uuid))
                    = Err("Note not found")]_vars

\* C18 happens: every row had its object, the upload of one row has taken
\* the object of another, and that other row's uuid is now on no object
C18_Witness ==
    /\ Returned("p1", "upload_note_to_bucket")
    /\ pc["p1"].res.tag = "Ok"
    /\ Cardinality(DOMAIN bucket) = Cardinality(DOMAIN rows)
    /\ Some(bucket[Key(pc["p1"].arg.title)].meta.uuid)
          = GetLocalNote(Store, Unwrap(pc["p1"].arg.id)).val.uuid
    /\ \E i \in DOMAIN rows \ {Unwrap(pc["p1"].arg.id)} :
          /\ Carriers(Unwrap(rows[i].uuid)) = {}
          /\ Returns(FetchBegin(Store, Unwrap(rows[i].uuid))) = Err("Note not found")

\* C19: no two objects of the bucket carry the same uuid metadata value.
C19_OneObjectPerUuid ==
    \A k1 \in Tagged(bucket) : \A k2 \in Tagged(bucket) :
        bucket[k1].meta.uuid = bucket[k2].meta.uuid => k1 = k2

\* C20: get_local_note with an id that matches no row returns the error
\* "Note not found" and changes nothing of the store or the bucket, whether
\* the id was never assigned, was deleted, or the table was cleared.
C20_AbsentIdNotFound ==
    [][\A p \in Procs :
          (Calls(p, {"get_local_note"}) /\ pc'[p].arg \notin DOMAIN rows) =>
              /\ pc'[p].step = "done"
              /\ pc'[p].res = Err("Note not found")
              /\ UNCHANGED <<rows, bucket, rng, uuidgen, sealLog>>]_vars

\* C20 happens: rows had been created, the session's delete has emptied the
\* table, and the read of an id that had been assigned returned NotFound
C20_Witness ==
    /\ Returned("p1", "get_local_note")
    /\ pc["p1"].res = Err("Note not found")
    /\ pc["p1"].arg \in 1..uuidgen
    /\ DOMAIN rows = {}
    /\ budget < MaxWrites

\* C21: a read of a note whose ciphertext does not authenticate under its
\* stored nonce returns an error value: no read by id or by uuid ends in a
\* panic, and none leaves the connection unusable for later operations.
C21_UnauthenticReadFails ==
    /\ \A p \in Procs :
          (Returned(p, "get_local_note") \/ Returned(p, "fetch_bucket_note")) =>
              pc[p].res.tag \in {"Ok", "Err"}
    /\ ~poisoned

\* the ids of the table in the order SELECT returns them
RECURSIVE RowIds(_)
RowIds(ids) ==
    IF ids = {} THEN << >>
    ELSE LET id == CHOOSE i \in ids : \A j \in ids : i <= j
         IN << id >> \o RowIds(ids \ {id})

\* C22: get_local_notes returns either every row, each opened under its own
\* stored nonce, or, when some row cannot be decoded or decrypted, an error
\* value and no list: the error of the first such row.
C22_ListAllOrFirstError ==
    \A p \in Procs :
        Returned(p, "get_local_notes") =>
            LET ids == RowIds(DOMAIN rows)
                bad == { k \in 1..Len(ids) : RowToNote(Store, ids[k]).tag # "Ok" }
            IN /\ pc[p].res.tag \in {"Ok", "Err"}
               /\ bad = {} =>
                     /\ pc[p].res.tag = "Ok"
                     /\ Len(pc[p].res.val) = Len(ids)
                     /\ \A k \in 1..Len(ids) :
                           /\ pc[p].res.val[k].id = Some(ids[k])
                           /\ Ok(pc[p].res.val[k].content)
                                 = Open(B64Decode(rows[ids[k]].content).val,
                                        B64Decode(Unwrap(rows[ids[k]].nonce)).val)
               /\ bad # {} =>
                     /\ pc[p].res.tag = "Err"
                     /\ LET first == CHOOSE k \in bad : \A j \in bad : k <= j
                        IN pc[p].res.val = RowToNote(Store, ids[first]).val

\* the nonce metadata of obj is missing, is not base64, does not decode to
\* twelve bytes, or is not the nonce the body was sealed under
BadNonce(obj) ==
    \/ "nonce" \notin DOMAIN obj.meta
    \/ B64Decode(obj.meta.nonce).tag = "Err"
    \/ B64Decode(obj.meta.nonce).val.len # NonceLen
    \/ B64Decode(obj.meta.nonce).val # obj.body.n

\* C23: fetch_bucket_notes returns one tuple per object of the bucket, in
\* listing order over every page, each with the key, the metadata and the
\* content of its object; if any object has a missing, malformed,
\* wrong-length or non-authenticating nonce it returns an error and no list.
C23_CloudListAllOrError ==
    \A p \in Procs :
        Returned(p, "fetch_bucket_notes") =>
            LET keys == SortedKeys(DOMAIN bucket)
            IN IF \E k \in DOMAIN bucket : BadNonce(bucket[k])
               THEN pc[p].res.tag = "Err"
               ELSE /\ pc[p].res.tag = "Ok"
                    /\ Len(pc[p].res.val) = Len(keys)
                    /\ \A i \in 1..Len(keys) :
                          /\ pc[p].res.val[i].key = keys[i]
                          /\ pc[p].res.val[i].metadata = bucket[keys[i]].meta
                          /\ pc[p].res.val[i].content = bucket[keys[i]].body.pt

\* C23 happens: the listing failed on an object that comes after objects
\* it could read
C23_Witness ==
    /\ Returned("p1", "fetch_bucket_notes")
    /\ pc["p1"].res.tag = "Err"
    /\ \E k \in DOMAIN bucket : \E j \in DOMAIN bucket :
          ~BadNonce(bucket[k]) /\ BadNonce(bucket[j]) /\ KeyRank(k) < KeyRank(j)

\* the stored nonce string decodes, to a number of bytes other than twelve
WrongLength(nonce_str) ==
    /\ B64Decode(nonce_str).tag = "Ok"
    /\ B64Decode(nonce_str).val.len # NonceLen

\* the nonce string a read takes from a row, and from an object
RowNonce(id) == OptionUnwrapOr(rows[id].nonce, Text("NULL", 4))
ObjectNonce(key) == OptionUnwrapOr(MapGet(bucket[key].meta, "nonce"), EmptyString)

\* the first of a set of positions
First(S) == CHOOSE k \in S : \A j \in S : k <= j

\* C24: on each read path a stored nonce that decodes to a length other
\* than twelve makes the read return its invalid-nonce error (InvalidQuery
\* from the local reads, "Nonce has wrong length" from the cloud reads), not
\* an outcome of open_in_place: for the row read by id, for the first row of
\* a listing that cannot be read, for the object a fetch by uuid matches,
\* and for the first object of a cloud listing that cannot be read.
C24_WrongLengthNonceRejected ==
    \A p \in Procs :
        /\ (/\ Returned(p, "get_local_note")
            /\ pc[p].arg \in DOMAIN rows
            /\ WrongLength(RowNonce(pc[p].arg)))
              => pc[p].res = Err("InvalidQuery")
        /\ Returned(p, "get_local_notes") =>
              LET ids == RowIds(DOMAIN rows)
                  bad == { k \in 1..Len(ids) :
                             \/ B64Decode(RowNonce(ids[k])).tag = "Err"
                             \/ WrongLength(RowNonce(ids[k]))
                             \/ B64Decode(RowNonce(ids[k])).val
                                   # B64Decode(rows[ids[k]].content).val.n }
              IN (bad # {} /\ WrongLength(RowNonce(ids[First(bad)])))
                    => pc[p].res = Err("InvalidQuery")
        /\ Returned(p, "fetch_bucket_note") =>
              LET keys == ListObjectsV2(Store)
                  hits == { k \in 1..Len(keys) :
                              UuidMatches(bucket[keys[k]].meta, pc[p].arg) }
              IN (hits # {} /\ WrongLength(ObjectNonce(keys[First(hits)])))
                    => pc[p].res = Err("Nonce has wrong length")
        /\ Returned(p, "fetch_bucket_notes") =>
              LET keys == SortedKeys(DOMAIN bucket)
                  bad == { k \in 1..Len(keys) : BadNonce(bucket[keys[k]]) }
              IN (bad # {} /\ WrongLength(ObjectNonce(keys[First(bad)])))
                    => pc[p].res = Err("Nonce has wrong length")

\* C25: upload_note_to_bucket called with a note that has no id, and
\* update_bucket_note called with a note that has no uuid, return an error
\* value.
C25_BadArgumentFails ==
    \A p \in Procs :
        /\ (Returned(p, "upload_note_to_bucket") /\ ~IsSome(pc[p].arg.id))
              => pc[p].res.tag = "Err"
        /\ (Returned(p, "update_bucket_note") /\ ~IsSome(pc[p].arg.uuid))
              => pc[p].res.tag = "Err"

\* C26: the note a successful fetch_bucket_note returns has no id, has the
\* uuid that was asked for, the nonce of the metadata of the object it was
\* read from, and the time of the fetch as updated_at.
C26_FetchedNoteShape ==
    \A p \in Procs :
        (Returned(p, "fetch_bucket_note") /\ pc[p].res.tag = "Ok") =>
            LET note == pc[p].res.val
            IN /\ note.id = None
               /\ note.uuid = Some(pc[p].arg)
               /\ \E k \in Carriers(pc[p].arg) : note.nonce = Some(ObjectNonce(k))
               /\ IsSome(note.updated_at)
               /\ Unwrap(note.updated_at) \in 2..clock

----------------------------------------------------------------------------
(* Search *)

\* the result of the search call caller p makes in this step
SearchRes(p) == pc'[p].res

\* C27: a step in which search_in_notes is called with local = false and
\* no bucket returns the parameter error, whatever state the table, its
\* mutex and the bucket are in, and leaves the mutex as it was; a step in
\* which it is called with local = true returns what it returns for every
\* other bucket argument and for an empty bucket.
C27_SearchStoreSelection ==
    [][\A p \in Procs :
          Calls(p, {"search_in_notes"}) =>
              LET arg == pc'[p].arg
              IN /\ (~arg.local /\ arg.bucket_name = None) =>
                      /\ SearchRes(p) =
                            Err("Bucket name is required when local is false")
                      /\ poisoned' = poisoned
                 /\ arg.local =>
                      \A b \in BucketNames :
                          \A s \in {Store, [Store EXCEPT !.bucket = << >>]} :
                              \E top \in Tops(s, arg.query_str, TRUE, b) :
                                  SearchRes(p) =
                                      SearchInNotes(s, arg.query_str, TRUE, b,
                                                    top).q.res]_vars

\* C27 happens: a search without a bucket has returned the parameter error
\* where neither the table nor the bucket can be read without an error
C27_Witness ==
    \E p \in Procs :
        /\ Returned(p, "search_in_notes")
        /\ ~pc[p].arg.local
        /\ pc[p].arg.bucket_name = None
        /\ pc[p].res = Err("Bucket name is required when local is false")
        /\ GetLocalNotes(Store).tag # "Ok"
        /\ FetchBucketNotes(Store).tag # "Ok"

\* title and content of the notes of the backend a search call chose, as
\* the store holds them now
BackendNotes(local) ==
    IF local
    THEN LET notes == GetLocalNotes(Store).val
         IN [k \in DOMAIN notes |->
                [title |-> notes[k].title, content |-> notes[k].content]]
    ELSE LET notes == FetchBucketNotes(Store).val
         IN [k \in DOMAIN notes |->
                [title |-> notes[k].key, content |-> notes[k].content]]

\* the notes of that backend whose content has the term among its words
Matching(local, term) ==
    { k \in DOMAIN BackendNotes(local) :
        term \in Terms(BackendNotes(local)[k].content) }

\* title and content of the notes a search returned
Found(res) ==
    { [title |-> res.val[i].title, content |-> res.val[i].content] :
        i \in DOMAIN res.val }

\* C28: whenever search_in_notes has returned Ok for a term that at most 10
\* notes of the chosen backend have in their content, it returned those
\* notes, each once, and no other note: none for a term no content has, and
\* never a note that has the term in its title only.
C28_SearchReturnsMatches ==
    \A p \in Procs :
        (Returned(p, "search_in_notes") /\ pc[p].res.tag = "Ok") =>
            LET local == pc[p].arg.local
                term == pc[p].arg.query_str
            IN Cardinality(Matching(local, term)) <= 10 =>
                  /\ Len(pc[p].res.val) = Cardinality(Matching(local, term))
                  /\ Found(pc[p].res) =
                        { BackendNotes(local)[k] : k \in Matching(local, term) }

\* C28 happens: a search of the table for "apple" has returned one note
\* of two, the other having the word in its title and not in its content
C28_Witness ==
    \E p \in Procs :
        /\ Returned(p, "search_in_notes")
        /\ pc[p].res.tag = "Ok"
        /\ pc[p].arg.local
        /\ pc[p].arg.query_str = "apple"
        /\ Len(pc[p].res.val) = 1
        /\ pc[p].res.val[1].content = ApplePie
        /\ \E i \in DOMAIN rows : rows[i].title = TitleApple

\* how many entries of the sequence notes have the title and content of v
Copies(notes, v) ==
    Cardinality({ k \in DOMAIN notes :
                    notes[k].title = v.title /\ notes[k].content = v.content })

\* C29: whenever search_in_notes has returned Ok, it returned at most 10
\* notes, and each of them at most as many times as the chosen backend
\* holds a note of that title and content.
C29_AtMostTenFromSnapshot ==
    \A p \in Procs :
        (Returned(p, "search_in_notes") /\ pc[p].res.tag = "Ok") =>
            /\ Len(pc[p].res.val) <= 10
            /\ \A v \in Found(pc[p].res) :
                  Copies(pc[p].res.val, v)
                      <= Copies(BackendNotes(pc[p].arg.local), v)

\* C29 happens: a search has returned 10 notes of a table in which more
\* notes have the term
C29_Witness ==
    \E p \in Procs :
        /\ Returned(p, "search_in_notes")
        /\ pc[p].res.tag = "Ok"
        /\ pc[p].arg.local
        /\ Len(pc[p].res.val) = 10
        /\ Cardinality(Matching(TRUE, pc[p].arg.query_str)) > 10

\* C30: a step in which search_in_notes is called changes no row and no
\* object, seals nothing and leaves no document in memory, and every note
\* it returns has the title and content that a note of the chosen backend
\* has at that step, whatever the notes held before and whatever earlier
\* searches returned.
C30_SearchFreshAndReadOnly ==
    [][\A p \in Procs :
          Calls(p, {"search_in_notes"}) =>
              /\ rows' = rows
              /\ bucket' = bucket
              /\ sealLog' = sealLog
              /\ index' = << >>
              /\ SearchRes(p).tag = "Ok" =>
                    Found(SearchRes(p)) \subseteq
                        { BackendNotes(pc'[p].arg.local)[k] :
                            k \in DOMAIN BackendNotes(pc'[p].arg.local) }]_vars

\* C30 happens: after the apple pie note was updated in this session, a
\* search of the table for "apple" has returned no note
C30_Witness ==
    \E p \in Procs :
        /\ Returned(p, "search_in_notes")
        /\ pc[p].arg.local
        /\ pc[p].arg.query_str = "apple"
        /\ pc[p].res = Ok(<< >>)
        /\ budget = 0
        /\ DOMAIN rows = {1, 2}
        /\ rows[1].updated_at # None
        /\ rows[2].title = TitleApple

\* C31: whenever a search of the bucket has returned Ok, the records it
\* made of the listing are one per listed object, in the order of the
\* listing, each with id 0, the object's key as title, the decrypted
\* content, an empty uuid, created_at 0 and neither updated_at nor timestamp.
C31_CloudRemapDefaults ==
    \A p \in Procs :
        (/\ Returned(p, "search_in_notes")
         /\ ~pc[p].arg.local
         /\ pc[p].res.tag = "Ok") =>
            LET listing == FetchBucketNotes(Store).val
                records == Snapshot(Store, FALSE, pc[p].arg.bucket_name).val
            IN /\ DOMAIN records = DOMAIN listing
               /\ \A k \in DOMAIN records :
                     /\ records[k].id = 0
                     /\ records[k].title = listing[k].key
                     /\ records[k].content = listing[k].content
                     /\ records[k].uuid = EmptyString
                     /\ records[k].created_at = 0
                     /\ records[k].updated_at = None
                     /\ records[k].timestamp = None

----------------------------------------------------------------------------
(* Local store, continued *)

\* note names no row of the table
NamesNoRow(note) == note.id = None \/ Unwrap(note.id) \notin DOMAIN rows

\* C32: a step in which update_local_note is called with a note whose id is
\* that of no row, or with a note without id, returns an error and leaves
\* every row and every object as it was.
C32_UpdateOfAbsentIdFails ==
    [][\A p \in Procs :
          (Calls(p, {"update_local_note"}) /\ NamesNoRow(pc'[p].arg)) =>
              /\ pc'[p].step = "done"
              /\ pc'[p].res.tag = "Err"
              /\ rows' = rows
              /\ bucket' = bucket]_vars

\* C33: whenever delete_all_local_notes has returned, it returned Ok, the
\* table has no row, get_local_notes returns no note and get_local_note
\* returns "Note not found" for every id that was ever handed out; so it is
\* when the table was empty before.
C33_ClearRemovesEveryRow ==
    \A p \in Procs :
        Returned(p, "delete_all_local_notes") =>
            /\ pc[p].res = Ok(Unit)
            /\ DOMAIN rows = {}
            /\ GetLocalNotes(Store) = Ok(<< >>)
            /\ \A id \in 1 .. uuidgen + 1 :
                  GetLocalNote(Store, id) = Err("Note not found")

\* C33 happens: a clear of a table of three rows has returned
C33_Witness ==
    \E p \in Procs :
        /\ Returned(p, "delete_all_local_notes")
        /\ pc[p].changes = 3
        /\ uuidgen = 3

----------------------------------------------------------------------------
(* The two stores *)

CloudOps ==
    {"upload_note_to_bucket", "fetch_bucket_note", "update_bucket_note",
     "delete_bucket_note", "fetch_bucket_notes", "delete_bucket_notes"}

\* C34: no step of a local operation changes an object of the bucket, and
\* no step of a cloud operation changes a row of the table; so the copy
\* uploaded of a note is as it was after the note's row is updated or
\* deleted.
C34_StoresIndependent ==
    [][\A p \in Procs :
          (pc'[p] # pc[p] /\ pc'[p].step # "idle") =>
              /\ pc'[p].op \in LocalOps => bucket' = bucket
              /\ pc'[p].op \in CloudOps => rows' = rows]_vars

\* C34 happens: the row of an uploaded note has been deleted, and the
\* bucket holds the copy
C34_Witness ==
    \E p \in Procs :
        /\ Returned(p, "delete_local_note")
        /\ pc[p].changes = 1
        /\ Carriers(UuidString(pc[p].arg - 1)) # {}

----------------------------------------------------------------------------
(* Rows, their uuids and their ids *)

\* every row has a uuid, one that was handed out, and no two rows have the
\* same
UuidsOfRows ==
    /\ \A i \in DOMAIN rows :
          /\ IsSome(rows[i].uuid)
          /\ \E k \in 0 .. uuidgen - 1 : rows[i].uuid = Some(UuidString(k))
    /\ \A i, j \in DOMAIN rows : i # j => rows[i].uuid # rows[j].uuid

\* C35: in every state every row of the table has a uuid and no two rows
\* have the same uuid, and no step changes the uuid of a row that it
\* keeps.
C35_RowUuids ==
    /\ []UuidsOfRows
    /\ [][\A i \in DOMAIN rows \cap DOMAIN rows' :
             rows'[i].uuid = rows[i].uuid]_vars

\* C35 happens: one of two rows has been updated
C35_Witness ==
    \E p \in Procs :
        /\ Returned(p, "update_local_note")
        /\ pc[p].res.tag = "Ok"
        /\ pc[p].changes = 1
        /\ Cardinality(DOMAIN rows) = 2

\* C36: once delete_bucket_note has returned Ok for a uuid and no object
\* of the bucket carries that uuid, no step of an update_bucket_note whose
\* requests interleaved with those of the delete puts an object with that
\* uuid into the bucket: none carries it when both calls have returned.
C36_DeletedStaysDeleted ==
    [][\A p \in Procs :
          (/\ Returned(p, "delete_bucket_note")
           /\ pc[p].res.tag = "Ok"
           /\ Carriers(pc[p].arg) = {}) =>
              \A k \in DOMAIN bucket' :
                  ~UuidMatches(bucket'[k].meta, pc[p].arg)]_vars

\* C38: ids are never reused: in every state the row of id i is the i-th
\* note that was ever created (it holds the i-th uuid handed out), so a
\* note created now has an id that no earlier note had, deleted ones
\* included.
C38_IdsNeverReused ==
    \A i \in DOMAIN rows : rows[i].uuid = Some(UuidString(i - 1))

\* the rows of ids other than those of the set are in the table after the
\* step as they were before
OthersKept(ids) ==
    \A i \in DOMAIN rows \ ids : i \in DOMAIN rows' /\ rows'[i] = rows[i]

\* C40: a step in which create_local_note returns Ok adds one row and
\* keeps every other; one in which update_local_note returns Ok keeps the
\* ids and every row but that of note.id; one in which delete_local_note
\* returns Ok removes the id given and keeps every other row; a step of
\* get_local_note or get_local_notes leaves the table as it was.
C40_LocalWritesTouchTheirTarget ==
    [][\A p \in Procs :
          /\ (Calls(p, {"create_local_note"}) /\ pc'[p].res.tag = "Ok") =>
                /\ OthersKept({})
                /\ Cardinality(DOMAIN rows') = Cardinality(DOMAIN rows) + 1
          /\ (Calls(p, {"update_local_note"}) /\ pc'[p].res.tag = "Ok") =>
                /\ DOMAIN rows' = DOMAIN rows
                /\ OthersKept({ i \in DOMAIN rows : Some(i) = pc'[p].arg.id })
          /\ (Calls(p, {"delete_local_note"}) /\ pc'[p].res.tag = "Ok") =>
                /\ DOMAIN rows' = DOMAIN rows \ {pc'[p].arg}
                /\ OthersKept({pc'[p].arg})
          /\ Calls(p, {"get_local_note", "get_local_notes"}) =>
                rows' = rows]_vars

\* C40 happens: one of three rows has been updated
C40_Witness ==
    \E p \in Procs :
        /\ Returned(p, "update_local_note")
        /\ pc[p].res.tag = "Ok"
        /\ pc[p].changes = 1
        /\ Cardinality(DOMAIN rows) = 3

----------------------------------------------------------------------------
(* Upload, then fetch *)

\* the object under key was written by upload_note_to_bucket and by no
\* update since: it has the created_at metadata
Uploads(key) == "created_at" \in DOMAIN bucket[key].meta

\* C39: whenever fetch_bucket_note has returned Ok for a uuid whose
\* objects are as upload_note_to_bucket wrote them, the note it returned
\* has the content and the title that were passed to the upload of one of
\* them: the plaintext sealed into the object, and the name the key was
\* made of.
C39_FetchReturnsUploaded ==
    \A p \in Procs :
        (/\ Returned(p, "fetch_bucket_note")
         /\ pc[p].res.tag = "Ok"
         /\ \A k \in Carriers(pc[p].arg) : Uploads(k)) =>
            \E k \in Carriers(pc[p].arg) :
                /\ pc[p].res.val.content = bucket[k].body.pt
                /\ pc[p].res.val.title = k.name

----------------------------------------------------------------------------
(* The connection after a failure *)

\* C37: no local operation fails because an earlier one failed: whenever
\* a local operation has returned, its result is not the panic of
\* CONNECTION.lock().unwrap() on a mutex that an earlier operation left
\* poisoned, and the mutex is not poisoned.
C37_ConnectionUsableAfterFailure ==
    /\ ~poisoned
    /\ \A p \in Procs :
          (pc[p].step = "done" /\ pc[p].op \in LocalOps) =>
              pc[p].res # LockPoisoned

====
